---- MODULE Spec2Model ----
(***************************************************************************)
(* Model of the Mercer Island geotechnical feasibility assistant:          *)
(*   app.py            the Streamlit session and perform_analysis          *)
(*   geo_processing.py geocode_address, extract_property, calculate_slope, *)
(*                     check_environmental_hazards                         *)
(*   gemini_analysis.py the narrative adapters around agent.run_sync       *)
(*                                                                         *)
(* Spec         one user session: analysis requests run stage by stage.    *)
(* SpecExtract  extract_property applied to bounded parcel layers.         *)
(* SpecSlope    calculate_slope applied to bounded contour layers.         *)
(*                                                                         *)
(* An Optional value is a sequence: None is <<>> and a value v is <<v>>.    *)
(* Lengths are in decimetres and angles in millidegrees, so that 0.4 m,    *)
(* 0.5 m and 1000 m are integers.                                          *)
(***************************************************************************)
EXTENDS Integers, Sequences, FiniteSets, TLC

VARIABLES
    agent,          \* gemini_analysis.agent: None or <<"Agent">>, fixed at import
    pc,             \* "idle", or the stage perform_analysis is about to run
    req,            \* number of analysis requests started so far (history)
    trace,          \* stages the current request has executed, in order (history)
    errors,         \* st.error messages of the current request, in order
    geocode_calls,  \* geolocator.geocode calls made by the current request
    generator_calls,\* agent.run_sync calls per narrative stage, current request
    geo_service,    \* None, or what the geocoding service did on the last call
    geo_return,     \* None, or how geocode_address ended on that call (history)
    parcel_layer,   \* None, or the parcel layer the current request read (history)
    contour_layer,  \* None, or the contour layer the current request read (history)
    hazard_layers,  \* None, or the hazard layers the current request read (history)
    locals,         \* local variables of perform_analysis
    session_state,  \* st.session_state result fields, each None or <<[val, req]>>
    chat_history,   \* st.session_state.chat_history: the (question, answer) pairs
    chat_submit,    \* None, or the last chat submission and what it did (history)
    arg,            \* SpecExtract / SpecSlope: None, or the argument of the call
    ret             \* SpecExtract / SpecSlope: None, or how the call ended

vars == <<agent, pc, req, trace, errors, geocode_calls, generator_calls,
          geo_service, geo_return, parcel_layer, contour_layer, hazard_layers,
          locals, session_state, chat_history, chat_submit, arg, ret>>

None == <<>>
Some(v) == <<v>>
Val(o) == o[1]

-----------------------------------------------------------------------------
(* Bounds                                                                  *)

MaxRequests == 3    \* analysis requests per session
MaxParcels == 2     \* features in a parcel layer
MaxContours == 3    \* features in a contour layer
MaxText == 3        \* tokens in a field's text of a generated answer
MaxChatRequests == 2    \* analysis requests in a session with chat
MaxTranscript == 3      \* pairs in the chat transcript

\* Degrees of latitude / longitude, and polygon corners, on a small grid.
Grid == {0, 1}

-----------------------------------------------------------------------------
(* models.py                                                               *)

Coordinates(lat, lon) == [latitude |-> lat, longitude |-> lon]

SlopeData(avg, mx) == [average_slope |-> avg, max_slope |-> mx]

EnvironmentalCheck(h) ==
    [erosion |-> h["erosion"], potential_slide |-> h["potential_slide"],
     seismic |-> h["seismic"], steep_slope |-> h["steep_slope"],
     watercourse |-> h["watercourse"]]

LocationAnalysis(s, r) == [summary |-> s, recommendations |-> r]

SlopeAnalysis(s, r) == [summary |-> s, recommendations |-> r]

FeasibilityReport(loc, slo, overall, recs) ==
    [location_analysis |-> loc, slope_analysis |-> slo,
     overall_feasibility |-> overall, detailed_recommendations |-> recs]

\* A feature attribute that is absent on that feature (null / NaN in the frame).
MissingValue == "<missing>"

\* Property(parcel_id: str, ...): pydantic validates the field, so a parcel_id
\* that is not a string raises ValidationError.
PropertyValid(parcel_id) == parcel_id # MissingValue

Property(parcel_id, geometry) == [parcel_id |-> parcel_id, geometry |-> geometry]

-----------------------------------------------------------------------------
(* geo_processing.geocode_address                                          *)

NoException == "no exception"

\* What geolocator.geocode can do: return a location, return None (no match),
\* or raise.  "Exception" stands for any exception other than the two geopy
\* classes named in the first except clause.
GeocoderOutcomes ==
    {[kind |-> "location", latitude |-> la, longitude |-> lo] : la \in Grid, lo \in Grid}
    \cup {[kind |-> k, latitude |-> 0, longitude |-> 0] :
            k \in {"no_match", "GeocoderTimedOut", "GeocoderServiceError", "Exception"}}

\* The try body: the value returned, or the exception raised.
geocode_try(svc) ==
    CASE svc.kind = "location" ->
            [exc |-> NoException, value |-> Some(Coordinates(svc.latitude, svc.longitude))]
      [] svc.kind = "no_match" -> [exc |-> "ValueError", value |-> None]
      [] OTHER -> [exc |-> svc.kind, value |-> None]

\* (mutant) only the clause for the two geopy exceptions: the rest propagates.
geocode_except_geopy_only(exc) ==
    IF exc \in {"GeocoderTimedOut", "GeocoderServiceError"}
    THEN [raised |-> FALSE, value |-> None]
    ELSE [raised |-> TRUE, value |-> None]

\* The except clauses.  ValueError and every other exception are instances of
\* Exception, so the second clause catches whatever the first does not.
geocode_except(exc) ==
    IF exc \in {"GeocoderTimedOut", "GeocoderServiceError"}
    THEN [raised |-> FALSE, value |-> None]
    ELSE [raised |-> FALSE, value |-> None]

geocode_address(svc) ==
    LET t == geocode_try(svc)
    IN  IF t.exc = NoException THEN [raised |-> FALSE, value |-> t.value]
        ELSE geocode_except(t.exc)

-----------------------------------------------------------------------------
(* geo_processing.extract_property                                         *)

\* Polygons: the axis-aligned rectangles of the grid, as sets of <<x, y>>.
Rect(x1, x2, y1, y2) == {<<x, y>> : x \in x1 .. x2, y \in y1 .. y2}

Polygons ==
    {Rect(x1, x2, y1, y2) : x1 \in Grid, x2 \in Grid, y1 \in Grid, y2 \in Grid}
    \ {{}}

\* Point(coordinates.longitude, coordinates.latitude): x is the longitude.
Point(x, y) == <<x, y>>

contains(geometry, point) == point \in geometry

\* A row of the parcel frame: geometry (None for a null geometry) and the
\* PARCEL_ID cell (read only when the frame has that column).
ParcelRows ==
    [geometry : {None} \cup {Some(g) : g \in Polygons},
     PARCEL_ID : {"P1", "P2", MissingValue}]

\* row.get("PARCEL_ID", "unknown"): the default is used only when the row has
\* no such key, i.e. when the frame has no PARCEL_ID column at all.
row_get_parcel_id(layer, row) ==
    IF layer.has_parcel_id THEN row.PARCEL_ID ELSE "unknown"

extract_point(coordinates) == Point(coordinates.longitude, coordinates.latitude)

\* The for loop over properties_gdf.iterrows(), from row i on.
RECURSIVE extract_scan(_, _, _)
extract_scan(layer, point, i) ==
    IF i > Len(layer.rows) THEN [exc |-> NoException, value |-> None]
    ELSE LET row == layer.rows[i]
         IN  IF row.geometry = None
             THEN [exc |-> "AttributeError", value |-> None]
             ELSE IF contains(Val(row.geometry), point)
             THEN IF PropertyValid(row_get_parcel_id(layer, row))
                  THEN [exc |-> NoException,
                        value |-> Some(Property(row_get_parcel_id(layer, row),
                                                Val(row.geometry)))]
                  ELSE [exc |-> "ValidationError", value |-> None]
             ELSE extract_scan(layer, point, i + 1)

\* The try body: load_geojson raises when the file cannot be read.
extract_try(coordinates, layer) ==
    IF layer.status # "ok" THEN [exc |-> "Exception", value |-> None]
    ELSE extract_scan(layer, extract_point(coordinates), 1)

extract_property(coordinates, layer) ==
    LET t == extract_try(coordinates, layer)
    IN  IF t.exc = NoException THEN t.value ELSE None

-----------------------------------------------------------------------------
(* geo_processing.calculate_slope                                          *)

MIN_DIST == 5         \* 0.5 m, the lower limit of `0.5 < dist <= 1000`
MAX_DIST == 10000     \* 1000 m, the upper limit of `0.5 < dist <= 1000`
DM_PER_M == 10        \* decimetres per metre: dist is in metres in the code

\* np.degrees(np.arctan(num / den)) in millidegrees, num >= 0, den > 0, by
\* CORDIC vectoring: the vector (den, num) is rotated onto the x axis through
\* the angles atan(2^-i), i = 0 .. 15, given here in microdegrees.
ATAN_TABLE ==
    <<45000000, 26565051, 14036243, 7125016, 3576334, 1789911, 895174, 447614,
      223811, 111906, 55953, 27976, 13988, 6994, 3497, 1749>>

POW2 == <<1, 2, 4, 8, 16, 32, 64, 128, 256, 512, 1024, 2048, 4096, 8192, 16384, 32768>>

RECURSIVE cordic(_, _, _, _)
cordic(x, y, z, i) ==
    IF y = 0 \/ i > Len(ATAN_TABLE) THEN z
    ELSE LET dx == y \div POW2[i]
             dy == x \div POW2[i]
         IN  IF y > 0 THEN cordic(x + dx, y - dy, z + ATAN_TABLE[i], i + 1)
             ELSE cordic(x - dx, y + dy, z - ATAN_TABLE[i], i + 1)

arctan_degrees(num, den) == (cordic(den * 1024, num * 1024, 0, 1) + 500) \div 1000

\* Contour features as calculate_slope sees them: the clipped geometry is
\* empty (None: the feature does not intersect the parcel) or has its centroid
\* at a position on a line, in decimetres (projected CRS); Elevation is the
\* cell of the Elevation column, read only when the frame has that column.
\* The sample terrain has contours of three elevations; their centroids lie
\* 0, 0.1, 0.4, 0.5, 50, 100, 1000 and more than 1000 m apart.
ContourSites ==
    ({10} \X {0, 5})
    \cup ({20} \X {0, 4, 5, 1005, 1505, 10005})
    \cup ({30} \X {5, 1505, 10005})

ContourRows ==
    {[clip |-> Some(site[2]), Elevation |-> site[1]] : site \in ContourSites}
    \cup {[clip |-> None, Elevation |-> 10]}

\* contours_gdf[contours_gdf.intersects(geom)], geometry replaced by the
\* intersection, rows with an empty geometry dropped: the rows, in frame order.
RECURSIVE clip_intersections(_)
clip_intersections(rows) ==
    IF rows = <<>> THEN <<>>
    ELSE IF Head(rows).clip = None THEN clip_intersections(Tail(rows))
    ELSE <<Head(rows)>> \o clip_intersections(Tail(rows))

\* sort_values(by="Elevation"): every arrangement of the rows in ascending
\* elevation; the order of rows of equal elevation is the sort's choice.
\* sorted_from(rows, I): the arrangements of the rows with index in I.
RECURSIVE sorted_from(_, _)
sorted_from(rows, I) ==
    IF I = {} THEN {<<>>}
    ELSE UNION {{<<rows[i]>> \o t : t \in sorted_from(rows, I \ {i})} :
                  i \in {k \in I : \A j \in I : rows[k].Elevation <= rows[j].Elevation}}

sort_values(rows) == sorted_from(rows, 1 .. Len(rows))

abs(x) == IF x < 0 THEN -x ELSE x

\* centroid1.distance(centroid2)
distance(c1, c2) == abs(c1 - c2)

\* (mutant) the distance filter with a closed lower limit.
dist_plausible_closed(dist) == MIN_DIST <= dist /\ dist <= MAX_DIST

\* `0.5 < dist <= 1000`
dist_plausible(dist) == MIN_DIST < dist /\ dist <= MAX_DIST

\* (mutant) the loop over range(len(intersections) - 2): the last pair is lost.
RECURSIVE slope_loop_short(_, _)
slope_loop_short(intersections, i) ==
    IF i > Len(intersections) - 2 THEN <<>>
    ELSE LET elev_diff == abs(intersections[i + 1].Elevation - intersections[i].Elevation)
             dist == distance(Val(intersections[i].clip), Val(intersections[i + 1].clip))
         IN  IF dist_plausible(dist)
             THEN <<[pair |-> i, dist |-> dist,
                     slope_deg |-> arctan_degrees(elev_diff * DM_PER_M, dist)]>>
                  \o slope_loop_short(intersections, i + 1)
             ELSE slope_loop_short(intersections, i + 1)

\* The for loop over range(len(intersections) - 1), from pair i on (1-based):
\* the pairs that passed the filter, with the distance each was divided by.
RECURSIVE slope_loop(_, _)
slope_loop(intersections, i) ==
    IF i > Len(intersections) - 1 THEN <<>>
    ELSE LET elev_diff == abs(intersections[i + 1].Elevation - intersections[i].Elevation)
             dist == distance(Val(intersections[i].clip), Val(intersections[i + 1].clip))
         IN  IF dist_plausible(dist)
             THEN <<[pair |-> i, dist |-> dist,
                     slope_deg |-> arctan_degrees(elev_diff * DM_PER_M, dist)]>>
                  \o slope_loop(intersections, i + 1)
             ELSE slope_loop(intersections, i + 1)

RECURSIVE np_sum(_)
np_sum(slopes) == IF slopes = <<>> THEN 0 ELSE Head(slopes).slope_deg + np_sum(Tail(slopes))

np_mean(slopes) == np_sum(slopes) \div Len(slopes)

np_max(slopes) ==
    CHOOSE m \in {slopes[i].slope_deg : i \in 1 .. Len(slopes)} :
        \A i \in 1 .. Len(slopes) : slopes[i].slope_deg <= m

\* (mutant) the except clause returning None, as the other operations do.
slope_on_error_none == None

\* except Exception: return SlopeData(average_slope=0.0, max_slope=0.0)
slope_on_error == Some(SlopeData(0, 0))

\* The body after the sort, for one sorted arrangement of the intersections.
slope_of(intersections) ==
    IF Len(intersections) < 2
    THEN [value |-> Some(SlopeData(0, 0)), slopes |-> <<>>]
    ELSE LET slopes == slope_loop(intersections, 1)
         IN  IF slopes = <<>>
             THEN [value |-> Some(SlopeData(0, 0)), slopes |-> slopes]
             ELSE [value |-> Some(SlopeData(np_mean(slopes), np_max(slopes))),
                   slopes |-> slopes]

\* calculate_slope: the set of ways the call can end.  Each is the value
\* returned with the locals it was computed from: the exception caught (if
\* any), the sorted intersections and the slopes list.  load_geojson raises
\* when the file cannot be read, and sort_values raises KeyError when the
\* frame has no Elevation column.
calculate_slope(layer) ==
    IF layer.status # "ok"
    THEN {[exc |-> "Exception", value |-> slope_on_error,
           intersections |-> <<>>, slopes |-> <<>>]}
    ELSE IF ~layer.has_elevation
    THEN {[exc |-> "KeyError", value |-> slope_on_error,
           intersections |-> clip_intersections(layer.rows), slopes |-> <<>>]}
    ELSE {LET r == slope_of(s)
          IN  [exc |-> NoException, value |-> r.value,
               intersections |-> s, slopes |-> r.slopes] :
             s \in sort_values(clip_intersections(layer.rows))}

-----------------------------------------------------------------------------
(* geo_processing.check_environmental_hazards                              *)

\* HAZARD_FILES, in the dictionary's (insertion) order.
HAZARD_FILES == <<"erosion", "potential_slide", "seismic", "steep_slope", "watercourse">>

HazardNames == {HAZARD_FILES[i] : i \in 1 .. Len(HAZARD_FILES)}

\* hazard_gdf.intersects(property_geom) for one feature: the two polygons
\* share a point.
intersects(geometry, property_geom) == geometry \cap property_geom # {}

\* any(hazard_gdf.intersects(property_geom)): FALSE for a layer without features.
any_intersects(features, property_geom) ==
    \E i \in 1 .. Len(features) : intersects(features[i], property_geom)

\* The feature lists of a hazard layer: none, one polygon at either corner of
\* the grid, or a polygon at the far corner followed by one along the lower edge.
HazardFeatures ==
    {<<>>, <<Rect(0, 0, 0, 0)>>, <<Rect(1, 1, 1, 1)>>, <<Rect(1, 1, 1, 1), Rect(0, 1, 0, 0)>>}

\* A hazard layer: its file cannot be read, or it loads with its features.
HazardLayers ==
    {[status |-> "load_error", features |-> <<>>]}
    \cup [status : {"ok"}, features : HazardFeatures]

\* (mutant) the `intersects` flag of one layer carried over into the next.
RECURSIVE hazard_loop_carry(_, _, _, _)
hazard_loop_carry(property_geom, layers, hazards, i) ==
    IF i > Len(HAZARD_FILES) THEN [exc |-> NoException, hazards |-> hazards]
    ELSE LET hazard_type == HAZARD_FILES[i]
         IN  IF layers[hazard_type].status # "ok"
             THEN [exc |-> "Exception", hazards |-> hazards]
             ELSE hazard_loop_carry(property_geom, layers,
                    [hazards EXCEPT ![hazard_type] =
                        \/ any_intersects(layers[hazard_type].features, property_geom)
                        \/ (i > 1 /\ hazards[HAZARD_FILES[i - 1]])],
                    i + 1)

\* (mutant) a layer that cannot be read is skipped and the check goes on.
RECURSIVE hazard_loop_skip(_, _, _, _)
hazard_loop_skip(property_geom, layers, hazards, i) ==
    IF i > Len(HAZARD_FILES) THEN [exc |-> NoException, hazards |-> hazards]
    ELSE LET hazard_type == HAZARD_FILES[i]
         IN  IF layers[hazard_type].status # "ok"
             THEN hazard_loop_skip(property_geom, layers, hazards, i + 1)
             ELSE hazard_loop_skip(property_geom, layers,
                    [hazards EXCEPT ![hazard_type] =
                        any_intersects(layers[hazard_type].features, property_geom)],
                    i + 1)

\* The for loop over HAZARD_FILES.items(), from entry i on, hazards being the
\* dictionary filled so far (FALSE stands for "no entry yet").  load_geojson
\* raises when the file cannot be read.
RECURSIVE hazard_loop(_, _, _, _)
hazard_loop(property_geom, layers, hazards, i) ==
    IF i > Len(HAZARD_FILES) THEN [exc |-> NoException, hazards |-> hazards]
    ELSE LET hazard_type == HAZARD_FILES[i]
         IN  IF layers[hazard_type].status # "ok"
             THEN [exc |-> "Exception", hazards |-> hazards]
             ELSE hazard_loop(property_geom, layers,
                    [hazards EXCEPT ![hazard_type] =
                        any_intersects(layers[hazard_type].features, property_geom)],
                    i + 1)

check_environmental_hazards(property, layers) ==
    LET t == hazard_loop(property.geometry, layers, [h \in HazardNames |-> FALSE], 1)
    IN  IF t.exc = NoException THEN Some(EnvironmentalCheck(t.hazards)) ELSE None

-----------------------------------------------------------------------------
(* gemini_analysis: response parsing                                       *)

\* F applied to the value of v: v is evaluated once, before F.
With(v, F(_)) == CHOOSE r \in {F(x) : x \in {v}} : TRUE

\* A Python str is a sequence of tokens: a token is one of the characters
\* the cleaning and the JSON grammar look at, the three backticks of a code
\* fence (written here with apostrophes, which a TLA+ string can hold), or a
\* word of other characters.
FENCE == "'''"
QUOTE == "\""
NL == "\n"
CR == "\r"
SP == " "

\* What the regular expression class \s and str.strip() take as whitespace.
WHITESPACE == {SP, NL, CR, "\t"}

\* The first position from i on that does not hold one of chars.
skip(s, i, chars) ==
    CHOOSE j \in i .. Len(s) + 1 :
        /\ j = Len(s) + 1 \/ s[j] \notin chars
        /\ \A k \in i .. j - 1 : s[k] \in chars

\* The tokens of s at the positions in keep, in their order.
Pick(s, keep) ==
    With(SelectSeq([i \in 1 .. Len(s) |-> <<i, s[i]>>], LAMBDA p : p[1] \in keep),
         LAMBDA kept : [k \in 1 .. Len(kept) |-> kept[k][2]])

\* s without the tokens at the positions in dropped.
Drop(s, dropped) == With(1 .. Len(s) \ dropped, LAMBDA keep : Pick(s, keep))

\* A match of ```json begins at position i.
json_fence_at(s, i) == i + 1 <= Len(s) /\ s[i] = FENCE /\ s[i + 1] = "json"

\* re.sub(r'```json\n?', '', raw_str).  A match begins with a fence and holds
\* no other, so no two matches overlap and every one is replaced.
remove_json_fence(raw_str) ==
    With(raw_str, LAMBDA s :
        Drop(s, {k \in 1 .. Len(s) :
                    \/ json_fence_at(s, k)
                    \/ k > 1 /\ json_fence_at(s, k - 1)
                    \/ k > 2 /\ json_fence_at(s, k - 2) /\ s[k] = NL}))

\* re.sub(r'```', '', cleaned)
remove_fence(cleaned) == SelectSeq(cleaned, LAMBDA token : token # FENCE)

\* str.strip()
strip(str) ==
    With(str, LAMBDA s :
        With({i \in 1 .. Len(s) : s[i] \notin WHITESPACE}, LAMBDA kept :
            IF kept = {} THEN <<>>
            ELSE SubSeq(s, CHOOSE i \in kept : \A j \in kept : i <= j,
                           CHOOSE i \in kept : \A j \in kept : j <= i)))

\* cleaned.replace('\n', ' ').replace('\r', ' ')
replace_newlines(cleaned) ==
    With(cleaned, LAMBDA s : [i \in 1 .. Len(s) |-> IF s[i] \in {NL, CR} THEN SP ELSE s[i]])

\* re.sub(r'\s+', ' ', cleaned): of each run of whitespace one space is left.
normalize_whitespace(cleaned) ==
    With(cleaned, LAMBDA s :
        With([i \in 1 .. Len(s) |-> IF s[i] \in WHITESPACE THEN SP ELSE s[i]], LAMBDA spaced :
            Drop(spaced, {k \in 2 .. Len(s) :
                            s[k] \in WHITESPACE /\ s[k - 1] \in WHITESPACE})))

\* A match of ,\s*} or ,\s*] (closer being the brace or the bracket) begins at
\* position i.
trailing_comma_at(s, i, closer) ==
    /\ s[i] = ","
    /\ With(skip(s, i + 1, WHITESPACE), LAMBDA j : j <= Len(s) /\ s[j] = closer)

\* re.sub(r',\s*}', '}', cleaned) and re.sub(r',\s*]', ']', cleaned).  A match
\* begins with a comma and holds no other, so no two matches overlap: of every
\* match the comma and the whitespace go and the closer stays.
remove_trailing_commas(cleaned, closer) ==
    With(cleaned, LAMBDA s :
        Drop(s, {k \in 1 .. Len(s) :
                    \/ trailing_comma_at(s, k, closer)
                    \/ /\ s[k] \in WHITESPACE
                       /\ \E i \in 1 .. k - 1 :
                            /\ trailing_comma_at(s, i, closer)
                            /\ \A m \in i + 1 .. k : s[m] \in WHITESPACE}))

clean_json_string(raw_str) ==
    remove_trailing_commas(
        remove_trailing_commas(
            normalize_whitespace(
                replace_newlines(strip(remove_fence(remove_json_fence(raw_str))))),
            "}"),
        "]")

\* json_str.replace('```json', '').replace('```', '').strip()
fallback_clean(json_str) ==
    strip(remove_fence(
        With(json_str, LAMBDA s :
            Drop(s, {k \in 1 .. Len(s) :
                        json_fence_at(s, k) \/ (k > 1 /\ json_fence_at(s, k - 1))}))))

\* json.loads.  A parsed value is [t |-> "str", v |-> the text],
\* [t |-> "arr", v |-> the elements] or [t |-> "obj", v |-> the members, each
\* [k |-> key, val |-> value], in order].  A parse step returns [ok, v, i]: i
\* is the position after the value.  Of the whitespace only space, newline,
\* carriage return and tab may stand between the values, and a string may not
\* hold a newline, a carriage return or a tab (strict mode).
JSON_WHITESPACE == {SP, NL, CR, "\t"}

ParseError == [ok |-> FALSE, v |-> <<>>, i |-> 0]

\* s[i] is the opening quote.
parse_string(s, i) ==
    With({j \in i + 1 .. Len(s) : s[j] = QUOTE}, LAMBDA closing :
        IF closing = {} THEN ParseError
        ELSE With(CHOOSE j \in closing : \A k \in closing : j <= k, LAMBDA j :
                IF \E k \in i + 1 .. j - 1 : s[k] \in {NL, CR, "\t"} THEN ParseError
                ELSE [ok |-> TRUE, v |-> SubSeq(s, i + 1, j - 1), i |-> j + 1]))

RECURSIVE parse_value(_, _)
RECURSIVE parse_members(_, _, _)
RECURSIVE parse_elements(_, _, _)

\* The members of an object from position i on, which follows `{` or `,`.
parse_members(s, i, members) ==
    With(skip(s, i, JSON_WHITESPACE), LAMBDA j :
        IF j > Len(s) \/ s[j] # QUOTE THEN ParseError
        ELSE With(parse_string(s, j), LAMBDA key :
            IF ~key.ok THEN ParseError
            ELSE With(skip(s, key.i, JSON_WHITESPACE), LAMBDA c :
                IF c > Len(s) \/ s[c] # ":" THEN ParseError
                ELSE With(parse_value(s, c + 1), LAMBDA val :
                    IF ~val.ok THEN ParseError
                    ELSE With(skip(s, val.i, JSON_WHITESPACE), LAMBDA e :
                        With(Append(members, [k |-> key.v, val |-> val.v]), LAMBDA all :
                            IF e > Len(s) THEN ParseError
                            ELSE IF s[e] = "," THEN parse_members(s, e + 1, all)
                            ELSE IF s[e] = "}"
                            THEN [ok |-> TRUE, v |-> [t |-> "obj", v |-> all], i |-> e + 1]
                            ELSE ParseError))))))

\* The elements of an array from position i on, which follows `[` or `,`.
parse_elements(s, i, elements) ==
    With(parse_value(s, i), LAMBDA val :
        IF ~val.ok THEN ParseError
        ELSE With(skip(s, val.i, JSON_WHITESPACE), LAMBDA e :
            With(Append(elements, val.v), LAMBDA all :
                IF e > Len(s) THEN ParseError
                ELSE IF s[e] = "," THEN parse_elements(s, e + 1, all)
                ELSE IF s[e] = "]"
                THEN [ok |-> TRUE, v |-> [t |-> "arr", v |-> all], i |-> e + 1]
                ELSE ParseError)))

parse_value(s, i) ==
    With(skip(s, i, JSON_WHITESPACE), LAMBDA j :
        IF j > Len(s) THEN ParseError
        ELSE IF s[j] = QUOTE
        THEN With(parse_string(s, j), LAMBDA str :
                IF str.ok THEN [ok |-> TRUE, v |-> [t |-> "str", v |-> str.v], i |-> str.i]
                ELSE ParseError)
        ELSE IF s[j] \in {"{", "["}
        THEN With(skip(s, j + 1, JSON_WHITESPACE), LAMBDA c :
                IF c <= Len(s) /\ s[j] = "{" /\ s[c] = "}"
                THEN [ok |-> TRUE, v |-> [t |-> "obj", v |-> <<>>], i |-> c + 1]
                ELSE IF c <= Len(s) /\ s[j] = "[" /\ s[c] = "]"
                THEN [ok |-> TRUE, v |-> [t |-> "arr", v |-> <<>>], i |-> c + 1]
                ELSE IF s[j] = "{" THEN parse_members(s, j + 1, <<>>)
                ELSE parse_elements(s, j + 1, <<>>))
        ELSE ParseError)

\* json.loads(s): a value and nothing but whitespace after it, or JSONDecodeError.
json_loads(str) ==
    With(str, LAMBDA s :
        With(parse_value(s, 1), LAMBDA val :
            IF val.ok /\ skip(s, val.i, JSON_WHITESPACE) = Len(s) + 1 THEN val
            ELSE ParseError))

\* result_type(**parsed_data): pydantic validation of a parsed value.  The
\* members of a JSON object become keyword arguments (the last of several
\* members with one key wins, and keys that are not fields are ignored); a
\* value that is not an object cannot be unpacked (TypeError), and a field
\* that is missing or of the wrong type raises ValidationError.
has_key(members, key) == \E i \in 1 .. Len(members) : members[i].k = key

get(members, key) ==
    With({i \in 1 .. Len(members) : members[i].k = key}, LAMBDA at :
        members[CHOOSE i \in at : \A j \in at : j <= i].val)

is_str(members, key) == has_key(members, key) /\ get(members, key).t = "str"

is_str_list(members, key) ==
    /\ has_key(members, key)
    /\ With(get(members, key), LAMBDA list :
            list.t = "arr" /\ \A i \in 1 .. Len(list.v) : list.v[i].t = "str")

str_list(members, key) ==
    With(get(members, key).v, LAMBDA list : [i \in 1 .. Len(list) |-> list[i].v])

\* LocationAnalysis and SlopeAnalysis have the same two fields.
is_analysis(v) ==
    /\ v.t = "obj"
    /\ is_str(v.v, <<"summary">>)
    /\ is_str_list(v.v, <<"recommendations">>)

to_analysis(v) == [summary |-> get(v.v, <<"summary">>).v,
                   recommendations |-> str_list(v.v, <<"recommendations">>)]

is_report(v) ==
    /\ v.t = "obj"
    /\ has_key(v.v, <<"location_analysis">>)
    /\ is_analysis(get(v.v, <<"location_analysis">>))
    /\ has_key(v.v, <<"slope_analysis">>)
    /\ is_analysis(get(v.v, <<"slope_analysis">>))
    /\ is_str(v.v, <<"overall_feasibility">>)
    /\ is_str_list(v.v, <<"detailed_recommendations">>)

to_report(v) ==
    FeasibilityReport(to_analysis(get(v.v, <<"location_analysis">>)),
                      to_analysis(get(v.v, <<"slope_analysis">>)),
                      get(v.v, <<"overall_feasibility">>).v,
                      str_list(v.v, <<"detailed_recommendations">>))

ResultTypes == {"LocationAnalysis", "SlopeAnalysis", "FeasibilityReport"}

\* result_type(**parsed_data): the instance, or the exception raised.
construct(result_type, parsed_data) ==
    With(parsed_data, LAMBDA v :
    IF v.t # "obj" THEN [exc |-> "TypeError", value |-> None]
    ELSE IF result_type = "FeasibilityReport"
    THEN IF is_report(v) THEN [exc |-> NoException, value |-> Some(to_report(v))]
         ELSE [exc |-> "ValidationError", value |-> None]
    ELSE IF is_analysis(v) THEN [exc |-> NoException, value |-> Some(to_analysis(v))]
         ELSE [exc |-> "ValidationError", value |-> None])

\* What agent.run_sync does: it raises (error is str(e)), returns an object
\* without a data attribute, or returns a result whose data is a str.
Raises(error) == [kind |-> "raises", error |-> error, data |-> <<>>]
NoData == [kind |-> "no_data", error |-> <<>>, data |-> <<>>]
Data(text) == [kind |-> "data", error |-> <<>>, data |-> text]

\* validate_and_parse_json: [exc, value], value being None or the instance.
\* The first parse is inside `try`, whose last clause catches every exception
\* of result_type(**parsed_data); the second parse is inside the handler of
\* JSONDecodeError, where only a JSONDecodeError is caught.
validate_and_parse_json(result, result_type) ==
    IF result.kind # "data" THEN [exc |-> NoException, value |-> None]
    ELSE With(result.data, LAMBDA json_str :
         With(clean_json_string(json_str), LAMBDA cleaned_json :
            IF strip(cleaned_json) = <<>> THEN [exc |-> NoException, value |-> None]
            ELSE With(json_loads(cleaned_json), LAMBDA parsed_data :
                IF parsed_data.ok
                THEN [exc |-> NoException,
                      value |-> construct(result_type, parsed_data.v).value]
                ELSE With(json_loads(fallback_clean(json_str)), LAMBDA fallback_data :
                        IF fallback_data.ok THEN construct(result_type, fallback_data.v)
                        ELSE [exc |-> NoException, value |-> None]))))

-----------------------------------------------------------------------------
(* gemini_analysis: the narrative adapters                                 *)

\* The JSON text of an answer, as the prompts ask for it.  trailing puts a
\* comma before each closing bracket and brace, and lines puts each member
\* on a line of its own.
json_string(text) == <<QUOTE>> \o text \o <<QUOTE>>

json_list(text, trailing) ==
    <<"[">> \o json_string(text) \o (IF trailing THEN <<",">> ELSE <<>>) \o <<"]">>

analysis_json(summary, recommendation, trailing, lines) ==
    LET br == IF lines THEN <<NL>> ELSE <<>>
    IN  <<"{">> \o br
        \o json_string(<<"summary">>) \o <<":">> \o json_string(summary) \o <<",">> \o br
        \o json_string(<<"recommendations">>) \o <<":">> \o json_list(recommendation, trailing)
        \o (IF trailing THEN <<",">> ELSE <<>>) \o br \o <<"}">>

report_json(location, slope, overall, recommendation) ==
    <<"{">>
    \o json_string(<<"location_analysis">>) \o <<":">> \o location \o <<",">>
    \o json_string(<<"slope_analysis">>) \o <<":">> \o slope \o <<",">>
    \o json_string(<<"overall_feasibility">>) \o <<":">> \o json_string(overall) \o <<",">>
    \o json_string(<<"detailed_recommendations">>) \o <<":">> \o json_list(recommendation, FALSE)
    \o <<"}">>

\* The answer between the markers of a fenced code block.
fenced(text) == <<FENCE, "json", NL>> \o text \o <<NL, FENCE>>

\* The generator's behaviours in a session: the call raises, the data are
\* not JSON, or they are the JSON of an analysis (in a fenced block, with
\* trailing commas) or of a report; each of the last two has the wrong shape
\* for the other result type.
GeneratorResponses ==
    {Raises(<<"e1">>), Data(<<"oops">>),
     Data(fenced(analysis_json(<<"generated", SP, "summary">>, <<"generated">>, TRUE, TRUE))),
     Data(report_json(analysis_json(<<"location">>, <<"r1">>, FALSE, FALSE),
                      analysis_json(<<"slope">>, <<"r2">>, FALSE, FALSE),
                      <<"feasible">>, <<"r3">>))}

\* The behaviours the adapters are checked against one by one: those of the
\* session, a result without data, empty data, JSON that is not an object,
\* an object whose summary is a list, and undecorated or fenced answers.
NarrativeResponses ==
    GeneratorResponses
    \cup {NoData, Raises(<<"e2">>), Data(<<>>), Data(<<"[", "]">>),
          Data(<<"{">> \o json_string(<<"summary">>) \o <<":">> \o json_list(<<"a">>, FALSE)
               \o <<"}">>),
          Data(analysis_json(<<"a">>, <<"b">>, FALSE, FALSE)),
          Data(fenced(report_json(analysis_json(<<"a">>, <<"b">>, TRUE, FALSE),
                                  analysis_json(<<"c">>, <<"d">>, FALSE, TRUE),
                                  <<"e">>, <<"f">>)))}

\* validate_and_parse_json(result, result_type) of every response above and
\* every result type, computed once.
parsed_results ==
    {[result |-> result, result_type |-> result_type,
      parsed_result |-> validate_and_parse_json(result, result_type)] :
        result \in NarrativeResponses, result_type \in ResultTypes}

parsed(result, result_type) ==
    (CHOOSE p \in parsed_results :
        p.result = result /\ p.result_type = result_type).parsed_result

\* The one-element lists of the degraded results.
CONSULT == <<(<<"Consult a geotechnical engineer for manual assessment.">>)>>
SET_KEY == <<(<<"Please ensure a valid GOOGLE_API_KEY is set in the .env file and restart the app.">>)>>

\* str(result): the result's representation, which shows its data.
str_result(result) ==
    IF result.kind = "data" THEN <<"AgentRunResult(data=">> \o result.data \o <<")">>
    ELSE <<"<result>">>

RESULT_SLICE == 100     \* str(result)[:100]

\* s[:n], n in characters; a token that the cut would split is left out.
str_slice(str, n) ==
    With(str, LAMBDA s :
        LET chars[k \in 0 .. Len(s)] == IF k = 0 THEN 0 ELSE chars[k - 1] + Len(s[k])
        IN  SubSeq(s, 1, CHOOSE k \in 0 .. Len(s) :
                            chars[k] <= n /\ (k = Len(s) \/ chars[k + 1] > n)))

\* The prompt and the result are written to log files around the call;
\* opening or writing either file can fail (OSError).
LogOutcomes == {"ok", "prompt_log_fails", "result_log_fails"}

\* In the session the log files can be written, or the first write fails.
SessionLogOutcomes == {"ok", "prompt_log_fails"}

adapter_return(value, calls) == [raised |-> FALSE, value |-> value, calls |-> calls]

\* (mutant) the function body without its `except Exception` clause.
adapter_except_missing(value, calls) == [raised |-> TRUE, value |-> value, calls |-> calls]

\* `except Exception as e:` around the function body: the exception is logged
\* and the degraded value is returned.
adapter_except(value, calls) == [raised |-> FALSE, value |-> value, calls |-> calls]

\* analyze_location / analyze_slope (the two bodies differ in the prompt and
\* the result type only): whether the call raised, the value returned and the
\* run_sync calls made.
analyze(result_type, ag, log, result) ==
    LET failed == [summary |-> <<"Analysis failed due to an error.">>,
                   recommendations |-> CONSULT]
    IN  IF ag = None
        THEN adapter_return(
                [summary |-> <<"Analysis skipped due to missing or failed Gemini initialization.">>,
                 recommendations |-> SET_KEY], 0)
        ELSE IF log = "prompt_log_fails" THEN adapter_except(failed, 0)
        ELSE IF log = "result_log_fails" THEN adapter_except(failed, 1)
        ELSE IF result.kind = "raises"
        THEN adapter_return(
                [summary |-> <<"Analysis failed due to API error: ">> \o result.error,
                 recommendations |-> CONSULT], 1)
        ELSE With(parsed(result, result_type), LAMBDA parsed_result :
                 IF parsed_result.exc # NoException THEN adapter_except(failed, 1)
                 ELSE IF parsed_result.value = None
                 THEN adapter_return(
                        [summary |-> <<"Analysis failed due to invalid JSON response: ">>
                                     \o str_slice(str_result(result), RESULT_SLICE)
                                     \o <<"...">>,
                         recommendations |-> CONSULT], 1)
                 ELSE adapter_return(Val(parsed_result.value), 1))

analyze_location(check, ag, log, result) ==
    With(analyze("LocationAnalysis", ag, log, result), LAMBDA r :
        [raised |-> r.raised,
         value |-> LocationAnalysis(r.value.summary, r.value.recommendations),
         calls |-> r.calls])

analyze_slope(slope_data, ag, log, result) ==
    With(analyze("SlopeAnalysis", ag, log, result), LAMBDA r :
        [raised |-> r.raised,
         value |-> SlopeAnalysis(r.value.summary, r.value.recommendations),
         calls |-> r.calls])

\* generate_feasibility_report.  A parsed response is returned as it is: all
\* four fields, the two analyses included, are the generator's.
generate_feasibility_report(location, slope, ag, log, result) ==
    LET failed == FeasibilityReport(location, slope,
                    <<"Report generation failed due to an error.">>, CONSULT)
    IN  IF ag = None
        THEN adapter_return(FeasibilityReport(location, slope,
                <<"Report generation skipped due to missing or failed Gemini initialization.">>,
                SET_KEY), 0)
        ELSE IF log = "prompt_log_fails" THEN adapter_except(failed, 0)
        ELSE IF log = "result_log_fails" THEN adapter_except(failed, 1)
        ELSE IF result.kind = "raises"
        THEN adapter_return(FeasibilityReport(location, slope,
                <<"Report generation failed due to API error: ">> \o result.error,
                CONSULT), 1)
        ELSE With(parsed(result, "FeasibilityReport"), LAMBDA parsed_result :
                 IF parsed_result.exc # NoException THEN adapter_except(failed, 1)
                 ELSE IF parsed_result.value = None
                 THEN adapter_return(FeasibilityReport(location, slope,
                        <<"Report generation failed due to invalid JSON response: ">>
                            \o str_slice(str_result(result), RESULT_SLICE) \o <<"...">>,
                        CONSULT), 1)
                 ELSE adapter_return(Val(parsed_result.value), 1))

\* chat_with_report(report, question, chat_history), the history being the
\* parameter chat_history: the answer is a str.  `return result.data` raises
\* AttributeError on a result without data, inside the function's try.
chat_with_report(report, question, history, ag, result) ==
    IF ag = None
    THEN adapter_return(<<"Chat functionality unavailable due to missing or failed Gemini initialization. Please ensure a valid GOOGLE_API_KEY is set in the .env file and restart the app.">>, 0)
    ELSE IF result.kind = "raises"
    THEN adapter_return(<<"Chat failed due to API error: ", "API call failed: ">>
                            \o result.error \o <<"\nStack trace: ", "<traceback>">>, 1)
    ELSE IF result.kind = "no_data"
    THEN adapter_except(<<"Sorry, I couldn't process your question. Please try again or consult a geotechnical engineer.">>, 1)
    ELSE adapter_return(result.data, 1)

-----------------------------------------------------------------------------
(* app.py: the session and perform_analysis                                *)

NarrativeStages == {"location_analysis", "slope_analysis", "feasibility_report"}

ResultFields == {"coordinates", "property", "slope_data", "environmental_check",
                 "feasibility_report"}

NoLocals ==
    [coordinates |-> None, property |-> None, slope_data |-> None,
     environmental_check |-> None, location_analysis |-> None, slope_analysis |-> None]

\* The data files and the services as the session's requests find them.
SessionParcelLayers ==
    {[status |-> "ok", has_parcel_id |-> TRUE,
      rows |-> <<[geometry |-> Some(Rect(0, 0, 0, 1)), PARCEL_ID |-> "P1"],
                 [geometry |-> Some(Rect(1, 1, 0, 0)), PARCEL_ID |-> MissingValue]>>],
     [status |-> "load_error", has_parcel_id |-> FALSE, rows |-> <<>>]}

SessionContourLayers ==
    {[status |-> "ok", has_elevation |-> TRUE,
      rows |-> <<[clip |-> Some(5), Elevation |-> 10],
                 [clip |-> Some(1005), Elevation |-> 20]>>],
     [status |-> "load_error", has_elevation |-> FALSE, rows |-> <<>>]}

\* All five hazard layers load and only the seismic one reaches the parcels
\* of the session, or one of the five cannot be read.
SessionHazardLayers ==
    {[h \in HazardNames |->
        [status |-> "ok",
         features |-> IF h = "seismic" THEN <<Rect(1, 1, 1, 1), Rect(0, 1, 0, 0)>>
                      ELSE <<Rect(1, 1, 1, 1)>>]]}
    \cup {[h \in HazardNames |->
              IF h = failing THEN [status |-> "load_error", features |-> <<>>]
              ELSE [status |-> "ok", features |-> <<Rect(0, 1, 0, 0)>>]] :
            failing \in HazardNames}

\* st.session_state.<field> = value, noting the request that wrote it.
store(field, value) == [session_state EXCEPT ![field] = Some([val |-> value, req |-> req])]

step(stage) == trace' = Append(trace, stage)

\* st.error(message); return
halt(message) ==
    /\ errors' = Append(errors, message)
    /\ pc' = "idle"

\* main(): `if analyze_button and street: perform_analysis(street, zip_code)`.
AnalyzeProperty ==
    /\ pc = "idle"
    /\ req < MaxRequests
    /\ req' = req + 1
    /\ pc' = "geocode"
    /\ trace' = <<>>
    /\ errors' = <<>>
    /\ geocode_calls' = 0
    /\ generator_calls' = [s \in NarrativeStages |-> 0]
    /\ locals' = NoLocals
    /\ parcel_layer' = None
    /\ contour_layer' = None
    /\ hazard_layers' = None
    /\ UNCHANGED <<chat_history, chat_submit, agent, geo_service, geo_return, session_state, arg, ret>>

\* (mutant) a failed geocode is tried again instead of ending the request.
GeocodeRetry ==
    /\ pc = "geocode"
    /\ \E svc \in GeocoderOutcomes :
        LET r == geocode_address(svc)
        IN  /\ geo_service' = Some(svc)
            /\ geo_return' = Some(r)
            /\ geocode_calls' = geocode_calls + 1
            /\ step("geocode")
            /\ IF r.value = None
               THEN /\ errors' = Append(errors, "Failed to geocode address. Please check the input and try again.")
                    /\ pc' = "geocode"
                    /\ UNCHANGED <<locals, session_state>>
               ELSE /\ locals' = [locals EXCEPT !.coordinates = r.value]
                    /\ session_state' = store("coordinates", Val(r.value))
                    /\ pc' = "locate"
                    /\ UNCHANGED errors
    /\ UNCHANGED <<chat_history, chat_submit, agent, req, generator_calls, parcel_layer, contour_layer, hazard_layers, arg, ret>>

\* Step 1: geocode address.  An exception leaving geocode_address would leave
\* perform_analysis too ("crashed").
Geocode ==
    /\ pc = "geocode"
    /\ \E svc \in GeocoderOutcomes :
        LET r == geocode_address(svc)
        IN  /\ geo_service' = Some(svc)
            /\ geo_return' = Some(r)
            /\ geocode_calls' = geocode_calls + 1
            /\ step("geocode")
            /\ IF r.raised
               THEN /\ pc' = "crashed"
                    /\ UNCHANGED <<errors, locals, session_state>>
               ELSE IF r.value = None
               THEN /\ halt("Failed to geocode address. Please check the input and try again.")
                    /\ UNCHANGED <<locals, session_state>>
               ELSE /\ locals' = [locals EXCEPT !.coordinates = r.value]
                    /\ session_state' = store("coordinates", Val(r.value))
                    /\ pc' = "locate"
                    /\ UNCHANGED errors
    /\ UNCHANGED <<chat_history, chat_submit, agent, req, generator_calls, parcel_layer, contour_layer, hazard_layers, arg, ret>>

\* (mutant) the `return` after "No property found" is missing.
LocateNoReturn ==
    /\ pc = "locate"
    /\ \E layer \in SessionParcelLayers :
        LET property == extract_property(Val(locals.coordinates), layer)
        IN  /\ step("locate")
            /\ parcel_layer' = Some(layer)
            /\ IF property = None
               THEN /\ errors' = Append(errors, "No property found at the given coordinates.")
                    /\ pc' = "slope"
                    /\ UNCHANGED <<locals, session_state>>
               ELSE /\ locals' = [locals EXCEPT !.property = property]
                    /\ session_state' = store("property", Val(property))
                    /\ pc' = "slope"
                    /\ UNCHANGED errors
    /\ UNCHANGED <<chat_history, chat_submit, agent, req, geocode_calls, generator_calls, geo_service, geo_return,
                   contour_layer, hazard_layers, arg, ret>>

\* Step 2: extract property data.
Locate ==
    /\ pc = "locate"
    /\ \E layer \in SessionParcelLayers :
        LET property == extract_property(Val(locals.coordinates), layer)
        IN  /\ step("locate")
            /\ parcel_layer' = Some(layer)
            /\ IF property = None
               THEN /\ halt("No property found at the given coordinates.")
                    /\ UNCHANGED <<locals, session_state>>
               ELSE /\ locals' = [locals EXCEPT !.property = property]
                    /\ session_state' = store("property", Val(property))
                    /\ pc' = "slope"
                    /\ UNCHANGED errors
    /\ UNCHANGED <<chat_history, chat_submit, agent, req, geocode_calls, generator_calls, geo_service, geo_return,
                   contour_layer, hazard_layers, arg, ret>>

\* (mutant) the hazard check started before the slope stage has run.
SlopeSkipped ==
    /\ pc = "slope"
    /\ step("hazards")
    /\ pc' = "location_analysis"
    /\ locals' = [locals EXCEPT !.slope_data = Some(SlopeData(0, 0)),
                                !.environmental_check =
                                    Some(EnvironmentalCheck([h \in HazardNames |-> FALSE]))]
    /\ UNCHANGED <<chat_history, chat_submit, agent, req, errors, geocode_calls, generator_calls, geo_service,
                   geo_return, parcel_layer, contour_layer, hazard_layers, session_state, arg, ret>>

\* Step 3: calculate slope data.
Slope ==
    /\ pc = "slope"
    /\ \E layer \in SessionContourLayers : \E r \in calculate_slope(layer) :
        /\ step("slope")
        /\ contour_layer' = Some(layer)
        /\ IF r.value = None
           THEN /\ halt("Failed to calculate slope data.")
                /\ UNCHANGED <<locals, session_state>>
           ELSE /\ locals' = [locals EXCEPT !.slope_data = r.value]
                /\ session_state' = store("slope_data", Val(r.value))
                /\ pc' = "hazards"
                /\ UNCHANGED errors
    /\ UNCHANGED <<chat_history, chat_submit, agent, req, geocode_calls, generator_calls, geo_service, geo_return,
                   parcel_layer, hazard_layers, arg, ret>>

\* Step 4: check environmental hazards.
Hazards ==
    /\ pc = "hazards"
    /\ \E layers \in SessionHazardLayers :
        LET environmental_check == check_environmental_hazards(Val(locals.property), layers)
        IN  /\ step("hazards")
            /\ hazard_layers' = Some(layers)
            /\ IF environmental_check = None
               THEN /\ halt("Failed to check environmental hazards.")
                    /\ UNCHANGED <<locals, session_state>>
               ELSE /\ locals' = [locals EXCEPT !.environmental_check = environmental_check]
                    /\ session_state' = store("environmental_check", Val(environmental_check))
                    /\ pc' = "location_analysis"
                    /\ UNCHANGED errors
    /\ UNCHANGED <<chat_history, chat_submit, agent, req, geocode_calls, generator_calls, geo_service, geo_return,
                   parcel_layer, contour_layer, arg, ret>>

\* Step 5: Gemini location analysis.
AnalyzeLocationFrom(responses, logs) ==
    /\ pc = "location_analysis"
    /\ \E result \in responses, log \in logs :
        \E r \in {analyze_location(Val(locals.environmental_check), agent, log, result)} :
            /\ step("location_analysis")
            /\ generator_calls' = [generator_calls EXCEPT !["location_analysis"] = @ + r.calls]
            /\ IF r.raised
               THEN /\ pc' = "crashed"
                    /\ UNCHANGED locals
               ELSE /\ locals' = [locals EXCEPT !.location_analysis = Some(r.value)]
                    /\ pc' = "slope_analysis"
    /\ UNCHANGED <<chat_history, chat_submit, agent, req, errors, geocode_calls, geo_service, geo_return,
                   parcel_layer, contour_layer, hazard_layers, session_state, arg, ret>>

AnalyzeLocation == AnalyzeLocationFrom(GeneratorResponses, SessionLogOutcomes)

\* Step 6: Gemini slope analysis.
AnalyzeSlopeFrom(responses, logs) ==
    /\ pc = "slope_analysis"
    /\ \E result \in responses, log \in logs :
        \E r \in {analyze_slope(Val(locals.slope_data), agent, log, result)} :
            /\ step("slope_analysis")
            /\ generator_calls' = [generator_calls EXCEPT !["slope_analysis"] = @ + r.calls]
            /\ IF r.raised
               THEN /\ pc' = "crashed"
                    /\ UNCHANGED locals
               ELSE /\ locals' = [locals EXCEPT !.slope_analysis = Some(r.value)]
                    /\ pc' = "feasibility_report"
    /\ UNCHANGED <<chat_history, chat_submit, agent, req, errors, geocode_calls, geo_service, geo_return,
                   parcel_layer, contour_layer, hazard_layers, session_state, arg, ret>>

AnalyzeSlope == AnalyzeSlopeFrom(GeneratorResponses, SessionLogOutcomes)

\* Step 7: Gemini feasibility report, stored in the session.
GenerateReportFrom(responses, logs) ==
    /\ pc = "feasibility_report"
    /\ \E result \in responses, log \in logs :
        \E r \in {generate_feasibility_report(Val(locals.location_analysis),
                        Val(locals.slope_analysis), agent, log, result)} :
            /\ step("feasibility_report")
            /\ generator_calls' = [generator_calls EXCEPT !["feasibility_report"] = @ + r.calls]
            /\ IF r.raised
               THEN /\ pc' = "crashed"
                    /\ UNCHANGED session_state
               ELSE /\ session_state' = store("feasibility_report", r.value)
                    /\ pc' = "idle"
    /\ UNCHANGED <<chat_history, chat_submit, agent, req, errors, geocode_calls, geo_service, geo_return,
                   parcel_layer, contour_layer, hazard_layers, locals, arg, ret>>

GenerateReport == GenerateReportFrom(GeneratorResponses, SessionLogOutcomes)

\* main(): the session-state defaults; the agent is set when the module loads.
Init ==
    /\ agent \in {None, Some("Agent")}
    /\ pc = "idle"
    /\ req = 0
    /\ trace = <<>>
    /\ errors = <<>>
    /\ geocode_calls = 0
    /\ generator_calls = [s \in NarrativeStages |-> 0]
    /\ geo_service = None
    /\ geo_return = None
    /\ parcel_layer = None
    /\ contour_layer = None
    /\ hazard_layers = None
    /\ locals = NoLocals
    /\ session_state = [f \in ResultFields |-> None]
    /\ chat_history = <<>>
    /\ chat_submit = None
    /\ arg = None
    /\ ret = None

Next ==
    \/ AnalyzeProperty
    \/ Geocode
    \/ Locate
    \/ Slope
    \/ Hazards
    \/ AnalyzeLocation
    \/ AnalyzeSlope
    \/ GenerateReport

Spec == Init /\ [][Next]_vars

-----------------------------------------------------------------------------
(* app.py: the chat tab                                                    *)

\* What the user can submit in the chat input: nothing, or one of two texts.
Questions == {<<>>, <<"q1">>, <<"q2">>}

\* The generator's behaviours on a chat prompt: the call raises, the result
\* has no data, or its data are the answer.
ChatResponses == {Raises(<<"e1">>), NoData, Data(<<"answer">>)}

\* [q for q, _ in st.session_state.chat_history]
asked_questions(history) == {history[i][1] : i \in 1 .. Len(history)}

\* (mutant) a question is answered again although the transcript has it.
is_new_question_any(user_question, history) == user_question # <<>>

\* `user_question and user_question not in [q for q, _ in chat_history]`
is_new_question(user_question, history) ==
    user_question # <<>> /\ user_question \notin asked_questions(history)

\* (mutant) the new pair is put in front of the transcript.
append_pair_front(history, pair) == <<pair>> \o history

\* st.session_state.chat_history.append((user_question, answer))
append_pair(history, pair) == Append(history, pair)

\* The chat tab shows the input only when the session holds a report.
ChatAvailable == pc = "idle" /\ session_state["feasibility_report"] # None

\* handle_question(), the on_change callback of the chat input.  chat_submit
\* keeps the submission: the question, the transcript it met and the number
\* of generator calls it made.  An exception leaving chat_with_report would
\* leave the callback before the append ("crashed").
HandleQuestion ==
    /\ ChatAvailable
    /\ Len(chat_history) < MaxTranscript
    /\ \E user_question \in Questions, result \in ChatResponses :
        IF is_new_question(user_question, chat_history)
        THEN \E r \in {chat_with_report(Val(session_state["feasibility_report"]).val,
                                        user_question, chat_history, agent, result)} :
                /\ chat_submit' = Some([question |-> user_question,
                                        before |-> chat_history, calls |-> r.calls])
                /\ IF r.raised
                   THEN /\ pc' = "crashed"
                        /\ UNCHANGED chat_history
                   ELSE /\ chat_history' = append_pair(chat_history, <<user_question, r.value>>)
                        /\ UNCHANGED pc
        ELSE /\ chat_submit' = Some([question |-> user_question,
                                     before |-> chat_history, calls |-> 0])
             /\ UNCHANGED <<chat_history, pc>>
    /\ UNCHANGED <<agent, req, trace, errors, geocode_calls, generator_calls, geo_service,
                   geo_return, parcel_layer, contour_layer, hazard_layers, locals,
                   session_state, arg, ret>>

\* main() run again without a button press or a submission: every key is in
\* st.session_state already, so no default is assigned, and the tabs are
\* drawn from the session as it is.
Render ==
    /\ pc = "idle"
    /\ chat_history' = chat_history
    /\ UNCHANGED <<agent, pc, req, trace, errors, geocode_calls, generator_calls,
                   geo_service, geo_return, parcel_layer, contour_layer, hazard_layers,
                   locals, session_state, chat_submit, arg, ret>>

\* The session the chat is checked in: the generator answers each call of
\* perform_analysis with the JSON the prompt asks for, or raises, and the
\* prompt is logged; the geocoder and the layers are as in any session.
AnalysisResponses ==
    {Raises(<<"e1">>),
     Data(fenced(analysis_json(<<"generated", SP, "summary">>, <<"generated">>, TRUE, TRUE)))}

ReportResponses ==
    {Raises(<<"e1">>),
     Data(report_json(analysis_json(<<"location">>, <<"r1">>, FALSE, FALSE),
                      analysis_json(<<"slope">>, <<"r2">>, FALSE, FALSE),
                      <<"feasible">>, <<"r3">>))}

NextChat ==
    \/ AnalyzeProperty /\ req < MaxChatRequests
    \/ Geocode
    \/ Locate
    \/ Slope
    \/ Hazards
    \/ AnalyzeLocationFrom(AnalysisResponses, {"ok"})
    \/ AnalyzeSlopeFrom(AnalysisResponses, {"ok"})
    \/ GenerateReportFrom(ReportResponses, {"ok"})
    \/ HandleQuestion
    \/ Render

SpecChat == Init /\ [][NextChat]_vars

-----------------------------------------------------------------------------
(* SpecExtract: extract_property on every parcel layer within the bounds   *)

SeqsUpTo(S, n) == UNION {[1 .. k -> S] : k \in 0 .. n}

\* A frame without a PARCEL_ID column has no such cell in any row.
ParcelLayers ==
    {[status |-> "load_error", has_parcel_id |-> FALSE, rows |-> <<>>]}
    \cup [status : {"ok"}, has_parcel_id : {TRUE}, rows : SeqsUpTo(ParcelRows, MaxParcels)]
    \cup [status : {"ok"}, has_parcel_id : {FALSE},
          rows : SeqsUpTo({r \in ParcelRows : r.PARCEL_ID = MissingValue}, MaxParcels)]

InitPure ==
    /\ agent = None
    /\ pc = "idle"
    /\ req = 0
    /\ trace = <<>>
    /\ errors = <<>>
    /\ geocode_calls = 0
    /\ generator_calls = [s \in NarrativeStages |-> 0]
    /\ geo_service = None
    /\ geo_return = None
    /\ parcel_layer = None
    /\ contour_layer = None
    /\ hazard_layers = None
    /\ locals = NoLocals
    /\ session_state = [f \in ResultFields |-> None]
    /\ chat_history = <<>>
    /\ chat_submit = None
    /\ ret = None

pipeline_vars == <<agent, pc, req, trace, errors, geocode_calls, generator_calls,
                   geo_service, geo_return, parcel_layer, contour_layer, hazard_layers,
                   locals, session_state, chat_history, chat_submit>>

InitExtract ==
    /\ InitPure
    /\ \E la \in Grid, lo \in Grid, layer \in ParcelLayers :
          arg = Some([coordinates |-> Coordinates(la, lo), layer |-> layer])

ExtractProperty ==
    /\ ret = None
    /\ ret' = Some([value |-> extract_property(Val(arg).coordinates, Val(arg).layer)])
    /\ UNCHANGED <<pipeline_vars, arg>>

NextExtract == ExtractProperty

SpecExtract == InitExtract /\ [][NextExtract]_vars

-----------------------------------------------------------------------------
(* SpecSlope: calculate_slope on every contour layer within the bounds     *)

\* A frame without an Elevation column has no such cell in any row.
ContourLayers ==
    {[status |-> "load_error", has_elevation |-> FALSE, rows |-> <<>>]}
    \cup [status : {"ok"}, has_elevation : {TRUE}, rows : SeqsUpTo(ContourRows, MaxContours)]
    \cup [status : {"ok"}, has_elevation : {FALSE},
          rows : SeqsUpTo({r \in ContourRows : r.Elevation = 10}, MaxContours)]

InitSlope ==
    /\ InitPure
    /\ \E layer \in ContourLayers : arg = Some([layer |-> layer])

CalculateSlope ==
    /\ ret = None
    /\ \E r \in calculate_slope(Val(arg).layer) : ret' = Some(r)
    /\ UNCHANGED <<pipeline_vars, arg>>

NextSlope == CalculateSlope

SpecSlope == InitSlope /\ [][NextSlope]_vars

-----------------------------------------------------------------------------
(* SpecHazards: check_environmental_hazards on parcels and hazard layers   *)

\* The parcels checked: one at each corner of the grid, and the left edge.
HazardParcels ==
    {Property("P1", g) : g \in {Rect(0, 0, 0, 0), Rect(1, 1, 1, 1), Rect(0, 0, 0, 1)}}

InitHazards ==
    /\ InitPure
    /\ \E property \in HazardParcels, layers \in [HazardNames -> HazardLayers] :
          arg = Some([property |-> property, layers |-> layers])

CheckEnvironmentalHazards ==
    /\ ret = None
    /\ ret' = Some([value |-> check_environmental_hazards(Val(arg).property, Val(arg).layers)])
    /\ UNCHANGED <<pipeline_vars, arg>>

NextHazards == CheckEnvironmentalHazards

SpecHazards == InitHazards /\ [][NextHazards]_vars

\* The four adapters, each called once with every behaviour of the generator
\* and of the log files, with and without an agent.
NarrativeFunctions ==
    {"analyze_location", "analyze_slope", "generate_feasibility_report", "chat_with_report"}

\* The arguments of the calls: results of the earlier stages of a request.
GivenCheck == EnvironmentalCheck([h \in HazardNames |-> h = "seismic"])
GivenSlopeData == SlopeData(0, 0)
GivenLocation == LocationAnalysis(<<"given location">>, <<(<<"given r1">>)>>)
GivenSlope == SlopeAnalysis(<<"given slope">>, <<(<<"given r2">>)>>)
GivenReport == FeasibilityReport(GivenLocation, GivenSlope, <<"given overall">>, <<>>)

InitNarrative ==
    /\ InitPure
    /\ \E fn \in NarrativeFunctions, ag \in {None, Some("Agent")},
          log \in LogOutcomes, result \in NarrativeResponses :
          arg = Some([fn |-> fn, agent |-> ag, log |-> log, result |-> result])

\* chat_with_report writes no log file, so log has no effect on it.
call_adapter(a) ==
    CASE a.fn = "analyze_location" ->
            analyze_location(GivenCheck, a.agent, a.log, a.result)
      [] a.fn = "analyze_slope" ->
            analyze_slope(GivenSlopeData, a.agent, a.log, a.result)
      [] a.fn = "generate_feasibility_report" ->
            generate_feasibility_report(GivenLocation, GivenSlope, a.agent, a.log, a.result)
      [] a.fn = "chat_with_report" ->
            chat_with_report(GivenReport, <<"question">>, <<>>, a.agent, a.result)

CallAdapter ==
    /\ ret = None
    /\ ret' = Some([value |-> call_adapter(Val(arg))])
    /\ UNCHANGED <<pipeline_vars, arg>>

NextNarrative == CallAdapter

SpecNarrative == InitNarrative /\ [][NextNarrative]_vars

\* validate_and_parse_json on the answers the prompts ask for: the JSON of an
\* analysis whose summary is any text of up to MaxText tokens, plain or
\* wrapped in a fenced block, with or without trailing commas, on one line or
\* on several.
TextTokens == {"a", SP, ",", "}", "]", FENCE}

Texts == SeqsUpTo(TextTokens, MaxText)

response(a) ==
    IF a.fence THEN fenced(analysis_json(a.summary, a.recommendation, a.trailing, a.lines))
    ELSE analysis_json(a.summary, a.recommendation, a.trailing, a.lines)

InitParse ==
    /\ InitPure
    /\ \E summary \in Texts, fence \in BOOLEAN, trailing \in BOOLEAN, lines \in BOOLEAN :
          arg = Some([summary |-> summary, recommendation |-> <<"b", SP, "c">>,
                      fence |-> fence, trailing |-> trailing, lines |-> lines])

ValidateAndParseJson ==
    /\ ret = None
    /\ ret' = Some([value |-> validate_and_parse_json(Data(response(Val(arg))),
                                                      "LocationAnalysis")])
    /\ UNCHANGED <<pipeline_vars, arg>>

NextParse == ValidateAndParseJson

SpecParse == InitParse /\ [][NextParse]_vars

-----------------------------------------------------------------------------
(* Claims about the session (Spec)                                         *)

IsPrefix(s, t) == Len(s) <= Len(t) /\ \A i \in 1 .. Len(s) : s[i] = t[i]

Contains(s, x) == \E i \in 1 .. Len(s) : s[i] = x

StageOrder ==
    <<"geocode", "locate", "slope", "hazards",
      "location_analysis", "slope_analysis", "feasibility_report">>

\* C1: in every request the stages run strictly in the order geocode, locate,
\* slope, hazards, location analysis, slope analysis, feasibility report: the
\* stages executed so far are always an initial part of that order, and the
\* stage about to start is the one right after the last that returned.
C1_StagesInOrder ==
    /\ IsPrefix(trace, StageOrder)
    /\ pc \notin {"idle", "crashed"} => pc = StageOrder[Len(trace) + 1]

C1_Witness == trace = StageOrder /\ pc = "idle"

\* C2: when geocoding returns no result, or no parcel contains the point, the
\* request halts there: geocode (resp. geocode, locate) are the only stages
\* that request ever executes, and it makes no narrative-generation call.
C2_InputErrorHalts ==
    /\ Contains(errors, "Failed to geocode address. Please check the input and try again.") =>
          /\ trace = <<"geocode">>
          /\ pc = "idle"
          /\ \A st \in NarrativeStages : generator_calls[st] = 0
    /\ Contains(errors, "No property found at the given coordinates.") =>
          /\ trace = <<"geocode", "locate">>
          /\ pc = "idle"
          /\ \A st \in NarrativeStages : generator_calls[st] = 0

C2_Witness ==
    /\ errors = <<"No property found at the given coordinates.">>
    /\ locals.coordinates # None
    /\ pc = "idle"

\* The current request has ended in an input error: the address was not
\* geocoded, or the parcel layer was read and no feature contains the point.
InputError ==
    /\ pc = "idle"
    /\ \/ errors = <<"Failed to geocode address. Please check the input and try again.">>
       \/ /\ errors = <<"No property found at the given coordinates.">>
          /\ Val(parcel_layer).status = "ok"
          /\ \A i \in 1 .. Len(Val(parcel_layer).rows) :
                LET row == Val(parcel_layer).rows[i]
                IN  row.geometry # None =>
                        <<Val(locals.coordinates).longitude, Val(locals.coordinates).latitude>>
                            \notin Val(row.geometry)

\* C3 (as claimed): a request that ends in an input error leaves no result
\* field of the session holding a value written by that request.
C3_NoPartialRecord ==
    InputError =>
        \A f \in ResultFields :
            session_state[f] = None \/ Val(session_state[f]).req # req

\* C4 (as claimed): once a later request has run, whether it succeeded or
\* failed, the session no longer holds the report of an earlier request.
C4_RecordReplaced ==
    pc = "idle" =>
        \/ session_state["feasibility_report"] = None
        \/ Val(session_state["feasibility_report"]).req = req

\* C5: geocode_address never raises; it returns None for every outcome of the
\* service but a location, and the location's Coordinates for a location.
C5_GeocodeNeverRaises ==
    /\ pc # "crashed"
    /\ geo_return # None =>
          /\ ~Val(geo_return).raised
          /\ Val(geo_return).value # None <=> Val(geo_service).kind = "location"
          /\ Val(geo_return).value # None =>
                Val(Val(geo_return).value) =
                    [latitude |-> Val(geo_service).latitude,
                     longitude |-> Val(geo_service).longitude]

C5_Witness ==
    /\ geo_service # None
    /\ Val(geo_service).kind = "no_match"
    /\ Val(geo_return).value = None
    /\ ~Val(geo_return).raised

\* C6: no retries: within one request the geocoding service is called at most
\* once and the generator at most once per narrative stage, and after a
\* failure the request is over (nothing runs again until a new request).
C6_NoRetries ==
    /\ geocode_calls <= 1
    /\ \A st \in NarrativeStages : generator_calls[st] <= 1
    /\ errors # <<>> => pc = "idle" /\ Len(errors) = 1

C6_Witness ==
    /\ pc = "idle"
    /\ geocode_calls = 1
    /\ errors = <<"Failed to geocode address. Please check the input and try again.">>
    /\ Val(geo_service).kind = "GeocoderTimedOut"

-----------------------------------------------------------------------------
(* Claims about extract_property (SpecExtract)                             *)

\* The rows whose polygon contains the point (longitude, latitude).
Containing(coordinates, layer) ==
    {i \in 1 .. Len(layer.rows) :
        /\ layer.rows[i].geometry # None
        /\ <<coordinates.longitude, coordinates.latitude>> \in Val(layer.rows[i].geometry)}

First(S) == CHOOSE i \in S : \A j \in S : i <= j

\* C7 (as claimed): extract_property returns the first feature, in layer
\* order, whose polygon contains the point (longitude, latitude); the polygon
\* returned contains that point; and the result is None exactly when no
\* feature of the layer contains the point.
C7_FirstContaining ==
    ret # None =>
        LET coordinates == Val(arg).coordinates
            layer == Val(arg).layer
            hits == Containing(coordinates, layer)
            value == Val(ret).value
        IN  /\ value = None <=> hits = {}
            /\ value # None =>
                  /\ Val(value).geometry = Val(layer.rows[First(hits)].geometry)
                  /\ <<coordinates.longitude, coordinates.latitude>> \in Val(value).geometry

\* The feature the loop matches: the first row whose polygon contains the
\* point, every row before it having a geometry.
Matched(coordinates, layer) ==
    {i \in Containing(coordinates, layer) :
        /\ i = First(Containing(coordinates, layer))
        /\ \A j \in 1 .. i - 1 : layer.rows[j].geometry # None}

\* The matched feature has no parcel identifier: the layer has no PARCEL_ID
\* column, or the feature's PARCEL_ID is null.
LacksParcelId(layer, i) ==
    ~layer.has_parcel_id \/ layer.rows[i].PARCEL_ID = MissingValue

\* C22: when the matched feature has no parcel identifier, extract_property
\* returns that parcel with parcel_id "unknown", and not None.
C22_UnknownParcelId ==
    ret # None =>
        LET coordinates == Val(arg).coordinates
            layer == Val(arg).layer
        IN  \A i \in Matched(coordinates, layer) :
                LacksParcelId(layer, i) =>
                    Val(ret).value = Some(Property("unknown", Val(layer.rows[i].geometry)))

-----------------------------------------------------------------------------
(* Claims about calculate_slope (SpecSlope)                                *)

\* The number of non-empty clipped intersections of the layer.
Intersecting(layer) == Cardinality({i \in 1 .. Len(layer.rows) : layer.rows[i].clip # None})

\* C8: with fewer than two non-empty clipped intersections, calculate_slope
\* returns SlopeData(0.0, 0.0).
C8_InsufficientData ==
    (ret # None /\ Intersecting(Val(arg).layer) < 2) =>
        Val(ret).value = Some([average_slope |-> 0, max_slope |-> 0])

C8_Witness ==
    /\ ret # None
    /\ Val(arg).layer.status = "ok"
    /\ Val(arg).layer.has_elevation
    /\ Len(Val(arg).layer.rows) = 2
    /\ Intersecting(Val(arg).layer) = 1

\* Centroid distance of the i-th consecutive pair of the sorted intersections.
PairDist(s, i) ==
    IF Val(s[i].clip) >= Val(s[i + 1].clip)
    THEN Val(s[i].clip) - Val(s[i + 1].clip)
    ELSE Val(s[i + 1].clip) - Val(s[i].clip)

Contributes(r, i) == \E k \in 1 .. Len(r.slopes) : r.slopes[k].pair = i

\* C9: where the contour data carry elevations (the pair loop is reached), a
\* consecutive pair contributes a slope angle if and only if its centroid
\* distance d satisfies 0.5 m < d <= 1000 m (5 < d <= 10000 in decimetres),
\* and no angle is computed by dividing by a zero distance.
C9_DistanceFilter ==
    (ret # None /\ Val(ret).exc = NoException) =>
        LET r == Val(ret)
            s == r.intersections
        IN  /\ \A i \in 1 .. Len(s) - 1 :
                  Contributes(r, i) <=> (5 < PairDist(s, i) /\ PairDist(s, i) <= 10000)
            /\ \A k \in 1 .. Len(r.slopes) :
                  /\ r.slopes[k].pair \in 1 .. Len(s) - 1
                  /\ r.slopes[k].dist = PairDist(s, r.slopes[k].pair)
                  /\ r.slopes[k].dist # 0

\* A pair at exactly 0.5 m (excluded) followed by one at exactly 1000 m (included).
C9_Witness ==
    /\ ret # None
    /\ Val(ret).exc = NoException
    /\ Len(Val(ret).intersections) = 3
    /\ PairDist(Val(ret).intersections, 1) = 5
    /\ PairDist(Val(ret).intersections, 2) = 10000
    /\ Len(Val(ret).slopes) = 1
    /\ Val(ret).slopes[1].pair = 2

Surviving(s) == {i \in 1 .. Len(s) - 1 : 5 < PairDist(s, i) /\ PairDist(s, i) <= 10000}

\* atan(|elevation[i+1] - elevation[i]| / d_i) in millidegrees, d_i in metres.
Angle(s, i) ==
    LET e == s[i + 1].Elevation - s[i].Elevation
    IN  arctan_degrees((IF e < 0 THEN -e ELSE e) * 10, PairDist(s, i))

\* The sum of the angles a[i], i in I.
RECURSIVE SumAngles(_, _)
SumAngles(a, I) ==
    IF I = {} THEN 0
    ELSE LET i == CHOOSE j \in I : TRUE IN a[i] + SumAngles(a, I \ {i})

\* C10: where the contour data carry elevations and at least two
\* intersections exist, the intersections are taken in ascending elevation
\* and calculate_slope returns the average and the maximum of the angles
\* atan(|elevation[i+1] - elevation[i]| / d_i) of exactly the consecutive
\* pairs that pass the distance filter, and (0.0, 0.0) when none passes;
\* elevations [10, 20, 30] at centroid distances [100 m, 50 m] give the angles
\* atan(10/100) = 5.711 and atan(10/50) = 11.310 degrees.
C10_AverageAndMax ==
    (ret # None /\ Val(ret).exc = NoException /\ Len(Val(ret).intersections) >= 2) =>
        LET r == Val(ret)
            s == r.intersections
            value == Val(r.value)
            surviving == Surviving(s)
            angle == [i \in surviving |-> Angle(s, i)]
        IN  /\ Len(s) = Intersecting(Val(arg).layer)
            /\ \A i \in 1 .. Len(s) - 1 : s[i].Elevation <= s[i + 1].Elevation
            /\ IF surviving = {}
               THEN value = [average_slope |-> 0, max_slope |-> 0]
               ELSE /\ value.average_slope =
                          SumAngles(angle, surviving) \div Cardinality(surviving)
                    /\ \E i \in surviving : value.max_slope = angle[i]
                    /\ \A i \in surviving : angle[i] <= value.max_slope
            /\ ([i \in 1 .. Len(s) |-> s[i].Elevation] = <<10, 20, 30>>
                    /\ PairDist(s, 1) = 1000 /\ PairDist(s, 2) = 500) =>
                  /\ Len(r.slopes) = 2
                  /\ r.slopes[1].slope_deg \in 5710 .. 5712
                  /\ r.slopes[2].slope_deg \in 11309 .. 11311
                  /\ value.max_slope = r.slopes[2].slope_deg
                  /\ value.average_slope = (r.slopes[1].slope_deg + r.slopes[2].slope_deg) \div 2

C10_Witness ==
    /\ ret # None
    /\ Val(ret).exc = NoException
    /\ [i \in 1 .. Len(Val(ret).intersections) |-> Val(ret).intersections[i].Elevation]
          = <<10, 20, 30>>
    /\ PairDist(Val(ret).intersections, 1) = 1000
    /\ PairDist(Val(ret).intersections, 2) = 500
    /\ Val(arg).layer.rows[1].Elevation = 30
    /\ Val(Val(ret).value).max_slope > Val(Val(ret).value).average_slope

\* The layer with its features in the order p, a permutation of 1 .. Len(rows).
Reordered(layer, p) ==
    [layer EXCEPT !.rows = [i \in 1 .. Len(layer.rows) |-> layer.rows[p[i]]]]

\* C11 (as claimed): the average and maximum slope returned for a contour
\* layer are the ones calculate_slope returns for every reordering of the same
\* features, features of equal elevation included.
C11_OrderIndependent ==
    ret # None =>
        \A p \in Permutations(1 .. Len(Val(arg).layer.rows)) :
            \A r \in calculate_slope(Reordered(Val(arg).layer, p)) :
                r.value = Val(ret).value

\* C12 (as claimed): a contour layer without elevations, with at least two
\* intersections, is processed in degraded mode: no exception ends the
\* computation, and the pair loop runs over all consecutive pairs of the
\* intersections with elevation 0, so that every pair at a plausible distance
\* contributes the angle atan(0 / d) = 0.
C12_DegradedMode ==
    (ret # None /\ Val(arg).layer.status = "ok" /\ ~Val(arg).layer.has_elevation
        /\ Intersecting(Val(arg).layer) >= 2) =>
        LET r == Val(ret)
            s == r.intersections
        IN  /\ r.exc = NoException
            /\ Len(r.slopes) = Cardinality(Surviving(s))
            /\ \A k \in 1 .. Len(r.slopes) : r.slopes[k].slope_deg = 0
            /\ r.value = Some([average_slope |-> 0, max_slope |-> 0])

-----------------------------------------------------------------------------
(* Claims about check_environmental_hazards (SpecHazards, Spec)            *)

\* Some feature of the layer shares a point with the parcel polygon.
LayerHits(layer, property) ==
    \E i \in 1 .. Len(layer.features) : layer.features[i] \cap property.geometry # {}

\* C13: when all five hazard layers load, check_environmental_hazards returns
\* five booleans, and each is true exactly when some feature of its own layer
\* intersects the parcel geometry, whatever the other four layers hold.
C13_IndependentBooleans ==
    (ret # None /\ \A h \in HazardNames : Val(arg).layers[h].status = "ok") =>
        /\ Val(ret).value # None
        /\ \A h \in HazardNames :
              Val(Val(ret).value)[h] = LayerHits(Val(arg).layers[h], Val(arg).property)

\* A parcel that only the seismic layer reaches.
C13_Witness ==
    /\ ret # None
    /\ \A h \in HazardNames : Val(arg).layers[h].status = "ok"
    /\ \A h \in HazardNames :
          LayerHits(Val(arg).layers[h], Val(arg).property) <=> h = "seismic"
    /\ \A h \in HazardNames \ {"seismic"} : Val(arg).layers[h].features # <<>>
    /\ Val(ret).value = Some([erosion |-> FALSE, potential_slide |-> FALSE,
                              seismic |-> TRUE, steep_slope |-> FALSE,
                              watercourse |-> FALSE])

\* C14: when one of the five hazard layers cannot be read, whichever it is,
\* the hazard check yields no result: the request ends at the hazard stage
\* with the error message, no EnvironmentalCheck reaches the locals or the
\* session for that request, no narrative call is made and no report is
\* stored for that request.
C14_NoPartialHazards ==
    (hazard_layers # None
        /\ \E h \in HazardNames : Val(hazard_layers)[h].status # "ok") =>
        /\ locals.environmental_check = None
        /\ pc = "idle"
        /\ errors = <<"Failed to check environmental hazards.">>
        /\ trace = <<"geocode", "locate", "slope", "hazards">>
        /\ \A st \in NarrativeStages : generator_calls[st] = 0
        /\ \A f \in {"environmental_check", "feasibility_report"} :
              session_state[f] = None \/ Val(session_state[f]).req # req

\* The last layer fails after four layers were tested and found intersecting.
C14_Witness ==
    /\ hazard_layers # None
    /\ Val(hazard_layers)["watercourse"].status = "load_error"
    /\ \A h \in HazardNames \ {"watercourse"} :
          /\ Val(hazard_layers)[h].status = "ok"
          /\ LayerHits(Val(hazard_layers)[h], Val(locals.property))
    /\ pc = "idle"
    /\ errors = <<"Failed to check environmental hazards.">>

\* C15 (as claimed): a layer file that cannot be read is surfaced as an error
\* of its own: a parcel layer that failed to load is not reported as "No
\* property found", and a contour layer that failed to load yields no slope
\* result, so that the request does not go on to the later stages.
C15_LoadErrorSurfaced ==
    /\ (parcel_layer # None /\ Val(parcel_layer).status = "load_error") =>
          ~Contains(errors, "No property found at the given coordinates.")
    /\ (contour_layer # None /\ Val(contour_layer).status = "load_error") =>
          /\ locals.slope_data = None
          /\ pc = "idle"

\* C18: the record the session holds once a request's report is stored
\* (st.session_state: the report with the slope data and the environmental
\* check shown beside it) has the slope result and the hazard result of the
\* request that produced the report, with the values those stages returned.
C18_RecordHoldsStageResults ==
    (pc = "idle" /\ session_state["feasibility_report"] # None) =>
        \A f \in {"slope_data", "environmental_check"} :
            /\ session_state[f] # None
            /\ Val(session_state[f]).req = Val(session_state["feasibility_report"]).req
            /\ Val(session_state["feasibility_report"]).req = req
                    => Val(session_state[f]).val = Val(locals[f])

\* display_report shows a report: coordinates, property and
\* feasibility_report are all set (the script renders between requests).
ReportShown ==
    /\ pc = "idle"
    /\ \A f \in {"coordinates", "property", "feasibility_report"} : session_state[f] # None

\* C23: whenever display_report shows a report, the five result fields of the
\* session were all written by one and the same analysis request.
C23_OneRequest ==
    ReportShown =>
        \A f \in ResultFields :
            /\ session_state[f] # None
            /\ Val(session_state[f]).req = Val(session_state["feasibility_report"]).req

\* The hazard check of the current request succeeded: its result is stored.
HazardCheckSucceeded ==
    /\ session_state["environmental_check"] # None
    /\ Val(session_state["environmental_check"]).req = req

\* C24: a request whose geocoding, parcel lookup and hazard check succeed
\* ends with its feasibility report stored in the session.  The slope stage
\* never ends a request ("Failed to calculate slope data." is never shown),
\* and no narrative stage raises or ends the request without a report.
C24_ReportStored ==
    /\ pc # "crashed"
    /\ ~Contains(errors, "Failed to calculate slope data.")
    /\ (pc = "idle" /\ HazardCheckSucceeded) =>
            /\ session_state["feasibility_report"] # None
            /\ Val(session_state["feasibility_report"]).req = req

\* A request whose contour layer could not be read, and whose report
\* generation raised inside the adapter, ends with its report stored.
C24_Witness ==
    /\ pc = "idle"
    /\ HazardCheckSucceeded
    /\ Val(contour_layer).status # "ok"
    /\ Val(session_state["feasibility_report"]).req = req
    /\ Val(session_state["feasibility_report"]).val.overall_feasibility
            = <<"Report generation failed due to an error.">>

-----------------------------------------------------------------------------
(* Claims about the narrative adapters (SpecNarrative)                     *)

IsStr(v) == v \in Seq(STRING)

IsStrList(v) == v \in Seq(Seq(STRING))

IsAnalysis(v) ==
    /\ DOMAIN v = {"summary", "recommendations"}
    /\ IsStr(v.summary)
    /\ IsStrList(v.recommendations)

IsReport(v) ==
    /\ DOMAIN v = {"location_analysis", "slope_analysis", "overall_feasibility",
                   "detailed_recommendations"}
    /\ IsAnalysis(v.location_analysis)
    /\ IsAnalysis(v.slope_analysis)
    /\ IsStr(v.overall_feasibility)
    /\ IsStrList(v.detailed_recommendations)

HasDeclaredType(fn, v) ==
    CASE fn \in {"analyze_location", "analyze_slope"} -> IsAnalysis(v)
      [] fn = "generate_feasibility_report" -> IsReport(v)
      [] fn = "chat_with_report" -> IsStr(v)

\* C16: whatever the generator does (no agent, the call raises, the result has
\* no data, the data are not JSON or are JSON of the wrong shape) and whether
\* or not the log files can be written, each of the four adapters returns a
\* value of its declared result type and does not raise.
C16_NeverRaises ==
    ret # None =>
        /\ ~Val(ret).value.raised
        /\ HasDeclaredType(Val(arg).fn, Val(ret).value.value)

\* An exception inside the function body (the prompt log cannot be written)
\* ends in the degraded analysis, and a chat result without data in the
\* apology.
C16_Witness ==
    /\ ret # None
    /\ Val(arg).agent # None
    /\ \/ /\ Val(arg).fn = "analyze_location"
          /\ Val(arg).log = "prompt_log_fails"
          /\ Val(ret).value.value.summary = <<"Analysis failed due to an error.">>
       \/ /\ Val(arg).fn = "chat_with_report"
          /\ Val(arg).result.kind = "no_data"
          /\ ~Val(ret).value.raised

ResultTypeOf(fn) ==
    CASE fn = "analyze_location" -> "LocationAnalysis"
      [] fn = "analyze_slope" -> "SlopeAnalysis"
      [] fn = "generate_feasibility_report" -> "FeasibilityReport"

\* The generation step of a call failed: there is no agent, a log file could
\* not be written, the call raised, or the response did not parse into the
\* result type.
NarrativeFailed(a) ==
    \/ a.agent = None
    \/ a.log # "ok"
    \/ a.result.kind = "raises"
    \/ parsed(a.result, ResultTypeOf(a.fn)).exc # NoException
    \/ parsed(a.result, ResultTypeOf(a.fn)).value = None

\* The narrative a call returns of its own: the text and the recommendations.
Narrative(fn, v) ==
    IF fn = "generate_feasibility_report"
    THEN [text |-> v.overall_feasibility, recommendations |-> v.detailed_recommendations]
    ELSE [text |-> v.summary, recommendations |-> v.recommendations]

\* What the generator produced: the text of the error or of the response.
GeneratorContent(result) ==
    {result.error[i] : i \in 1 .. Len(result.error)}
        \cup {result.data[i] : i \in 1 .. Len(result.data)}

\* C17: when the generation step of analyze_location, analyze_slope or
\* generate_feasibility_report fails, the narrative returned tells the user to
\* consult a geotechnical engineer and its text holds nothing of the error
\* message or of the raw response.
C17_FixedAdvisory ==
    (ret # None /\ Val(arg).fn # "chat_with_report" /\ NarrativeFailed(Val(arg))) =>
        LET n == Narrative(Val(arg).fn, Val(ret).value.value)
        IN  /\ n.recommendations = CONSULT
            /\ \A i \in 1 .. Len(n.text) : n.text[i] \notin GeneratorContent(Val(arg).result)

\* C19: whatever generate_feasibility_report returns, on success or on a
\* failure, the report's location_analysis and slope_analysis are the
\* LocationAnalysis and the SlopeAnalysis it was called with.
C19_AnalysesCopiedThrough ==
    (ret # None /\ Val(arg).fn = "generate_feasibility_report") =>
        /\ Val(ret).value.value.location_analysis = GivenLocation
        /\ Val(ret).value.value.slope_analysis = GivenSlope

-----------------------------------------------------------------------------
(* Claims about validate_and_parse_json (SpecParse)                        *)

\* C20: an answer that is the JSON of an analysis, apart from a surrounding
\* fenced block, trailing commas before the closing brace and bracket, and
\* line breaks between the members, is parsed into the analysis whose summary
\* and recommendations are the texts the JSON holds, unchanged.
C20_NormalizedParse ==
    ret # None =>
        /\ Val(ret).value.exc = NoException
        /\ Val(ret).value.value =
                Some(LocationAnalysis(Val(arg).summary, <<Val(arg).recommendation>>))

-----------------------------------------------------------------------------
(* Claims about the chat transcript                                        *)

\* A step of perform_analysis: it starts, moves or ends a request.
AnalysisStep == pc # "idle" \/ pc' # "idle"

\* C21: the chat transcript is append-only.  Every step keeps the pairs it
\* has, in their order; a step of perform_analysis and a re-rendering keep it
\* as it is, and handle_question adds at most one pair, after the last one.
C21_AppendOnly ==
    [][/\ IsPrefix(chat_history, chat_history')
       /\ Len(chat_history') <= Len(chat_history) + 1
       /\ AnalysisStep => chat_history' = chat_history]_vars

\* Two questions were answered, q2 before q1, and the second request has gone
\* through its stages up to the report with the transcript in place.
C21_Witness ==
    /\ req = 2
    /\ pc = "feasibility_report"
    /\ Len(chat_history) = 2
    /\ chat_history[1][1] = <<"q2">>
    /\ chat_history[2][1] = <<"q1">>

\* C25: the questions of the transcript are non-empty and pairwise distinct.
\* A submission whose question is non-empty and not yet a question of the
\* transcript appends one pair with that question, after at most one
\* generator call; any other submission leaves the transcript as it was and
\* calls the generator not at all.
C25_DistinctQuestions ==
    /\ \A i \in 1 .. Len(chat_history) : chat_history[i][1] # <<>>
    /\ \A i, j \in 1 .. Len(chat_history) : i # j => chat_history[i][1] # chat_history[j][1]
    /\ chat_submit # None =>
        \E s \in {Val(chat_submit)} :
            IF s.question # <<>> /\ s.question \notin asked_questions(s.before)
            THEN /\ Len(chat_history) = Len(s.before) + 1
                 /\ IsPrefix(s.before, chat_history)
                 /\ chat_history[Len(chat_history)][1] = s.question
                 /\ s.calls = IF agent = None THEN 0 ELSE 1
            ELSE /\ chat_history = s.before
                 /\ s.calls = 0

\* With a generator at hand and both questions answered, q1 was submitted
\* again and turned down.
C25_Witness ==
    /\ agent # None
    /\ chat_submit # None
    /\ Val(chat_submit).question = <<"q1">>
    /\ Val(chat_submit).calls = 0
    /\ Len(Val(chat_submit).before) = 2
    /\ chat_history = Val(chat_submit).before

====
